---- MODULE Spec2Model ----
(***************************************************************************)
(* Model of setup_claude_tasks.py: the installer ClaudeTasksSetup.run and  *)
(* the top-level handler of main.                                          *)
(*                                                                         *)
(* A path is a tuple of components below the target root (<<>> is the      *)
(* root itself).  A text is a sequence of tokens; a token is a chunk of    *)
(* characters.  The chunks the code looks for are tokens of their own:     *)
(* "claude_tasks" (the marker), "# CLAUDE.md" (the header), "\n" and       *)
(* "[DATE]".  Every other token is text that contains none of them.        *)
(***************************************************************************)
EXTENDS Integers, Sequences, FiniteSets, TLC

(* ------------------------------ bounds --------------------------------- *)
MaxRuns == 2
MaxDay == 2

(* ------------------------- text primitives ----------------------------- *)
NL == "\n"
Marker == "claude_tasks"
Header == "# CLAUDE.md"
DateToken == "[DATE]"

\* t in s   (substring test on the token level)
Contains(s, t) == \E i \in 1..Len(s) : s[i] = t

\* s.startswith(t)
StartsWith(s, t) == Len(s) > 0 /\ s[1] = t

\* s.endswith(t)
EndsWith(s, t) == Len(s) > 0 /\ s[Len(s)] = t

\* s.find(t): 0-based index of the first occurrence, -1 when there is none
Find(s, t) ==
    IF Contains(s, t)
    THEN (CHOOSE i \in 1..Len(s) : s[i] = t /\ \A j \in 1..(i-1) : s[j] # t) - 1
    ELSE -1

\* s[k:]  with a 0-based k >= 0
SliceFrom(s, k) == SubSeq(s, k + 1, Len(s))

\* s.replace(old, new)
Replace(s, old, new) == [i \in 1..Len(s) |-> IF s[i] = old THEN new ELSE s[i]]

RECURSIVE Join(_, _)
\* sep.join(list)
Join(sep, list) ==
    IF Len(list) = 0 THEN <<>>
    ELSE IF Len(list) = 1 THEN list[1]
    ELSE list[1] \o <<sep>> \o Join(sep, Tail(list))

\* datetime.now().strftime("%Y-%m-%d") for the d-th day of the model's clock
strftime(d) == <<"2026-11-01", "2026-11-02", "2026-11-03", "2026-11-04">>[d]

(* ------------------------------ paths ---------------------------------- *)
Root == <<>>
claude_tasks_dir == <<"claude_tasks">>
claude_md_path == <<"CLAUDE.md">>
backup_path == <<"CLAUDE.md.backup">>
gitignore_path == <<".gitignore">>
test_dashboard_dir == <<"test-dashboard-module">>

files_to_copy ==
    << "QUICK_REFERENCE.md", "PRINCIPLES_QUICK_CARD.md", "DEVELOPMENT_PROCESS.md",
       "PAIR_PROGRAMMING_WITH_CLAUDE.md", "UNIFIED_PRINCIPLES.md",
       "SESSION_STARTER.md", "TASK_TEMPLATE.md" >>

active_rel == <<"active", "ACTIVE_TASKS.md">>
target_active == claude_tasks_dir \o active_rel

Range(s) == {s[i] : i \in 1..Len(s)}

TaskFilePaths == {claude_tasks_dir \o <<n>> : n \in Range(files_to_copy)} \cup {target_active}

DashboardFilePaths ==
    { test_dashboard_dir \o <<"package.json">>,
      test_dashboard_dir \o <<"server.js">>,
      test_dashboard_dir \o <<"scripts", "discover-tests.js">>,
      test_dashboard_dir \o <<"package-lock.json">> }

FilePaths == TaskFilePaths \cup DashboardFilePaths \cup {claude_md_path, backup_path, gitignore_path}

\* the content of a path that holds no file
NoFile == <<"<no file>">>

IsPrefix(p, q) == Len(p) <= Len(q) /\ SubSeq(q, 1, Len(p)) = p

\* Path.exists()
Exists(d, f, p) == p \in d \/ (p \in DOMAIN f /\ f[p] # NoFile)

\* Path.mkdir(parents=True, exist_ok=True)
MkdirParents(d, p) == d \cup {SubSeq(p, 1, k) : k \in 0..Len(p)}

(* --------------------------- embedded texts ---------------------------- *)
EMBEDDED_TEMPLATES ==
    << [name |-> "QUICK_REFERENCE.md",
        content |-> <<"# Task Management Quick Reference", NL,
                      "cat ", Marker, "/active/ACTIVE_TASKS.md", NL>>],
       [name |-> "PRINCIPLES_QUICK_CARD.md",
        content |-> <<"# Development Principles Quick Card", NL>>],
       [name |-> "ACTIVE_TASKS.md",
        content |-> <<"# Active Tasks", NL, "*Last Updated: ", DateToken, "*", NL,
                      "## Task Queue", NL>>] >>

reference_section ==
    << Header, NL, NL, "## Claude Development Process", NL,
       "- ", Marker, "/QUICK_REFERENCE.md - Quick commands and workflow", NL,
       "---", NL, NL >>

claude_md_template ==
    << Header, NL, NL, "This project follows the Claude Task Management System. See ",
       Marker, "/ for:", NL >>

entries_to_add ==
    << <<NL, "# Claude task management">>,
       <<"*.backup">>,
       <<"CLAUDE.md.backup">>,
       <<NL, "# Test Dashboard Module">>,
       <<"test-dashboard-module/node_modules/">>,
       <<"test-dashboard-module/package-lock.json">>,
       <<"test-dashboard-module/test-registry.json">> >>

(* ---------------------------- the source ------------------------------- *)
\* A source tree: the directory --source names (kind "local") or the
\* repository the clone produces (kind "remote").
\*   exists      the local path exists
\*   hasSub      it holds a claude_tasks subdirectory
\*   rootFiles   relative paths of the files directly in it
\*   subFiles    relative paths of the files in its claude_tasks subdirectory
\*   claudeMd    it holds a CLAUDE.md
\*   hasDash     it holds a test-dashboard-module directory, with
\*   dashFiles   these files and, when dashModules, a node_modules directory
SrcRoot == "<source>"
SrcSub == "<source>/claude_tasks"
SrcTemp == "<tmp>/claude_tasks"

\* source_path.exists() in _copy_files
SourcePathExists(tree, sp) ==
    CASE sp = SrcRoot -> tree.exists
      [] sp = SrcSub -> tree.exists /\ tree.hasSub
      [] sp = SrcTemp -> tree.hasSub

\* the relative paths of the files below source_path
SourceFiles(tree, sp) == IF sp = SrcRoot THEN tree.rootFiles ELSE tree.subFiles

\* the text of the source file source_path / rel
SourceText(sp, rel) == <<sp>> \o rel

\* self.source.startswith(("http://", "https://", "git@"))
IsRemote(src) == src.kind = "remote"

(* ----------------------- _create_directory_structure ------------------- *)
directories == << claude_tasks_dir, claude_tasks_dir \o <<"active">>, claude_tasks_dir \o <<"finished">> >>

CreateDirectoryStructure(d) ==
    MkdirParents(MkdirParents(MkdirParents(d, directories[1]), directories[2]), directories[3])

(* -------------------------- _create_from_templates --------------------- *)
TemplateTarget(file_name) ==
    IF file_name = "ACTIVE_TASKS.md"
    THEN claude_tasks_dir \o <<"active", file_name>>
    ELSE claude_tasks_dir \o <<file_name>>

\* as CreateFromTemplates, but the date token is left in the text
CreateFromTemplates_NoDate(f, frc, day) ==
    [p \in DOMAIN f |->
        IF \E i \in 1..Len(EMBEDDED_TEMPLATES) : TemplateTarget(EMBEDDED_TEMPLATES[i].name) = p
        THEN LET i == CHOOSE k \in 1..Len(EMBEDDED_TEMPLATES) :
                          TemplateTarget(EMBEDDED_TEMPLATES[k].name) = p
             IN  IF f[p] # NoFile /\ ~frc THEN f[p] ELSE EMBEDDED_TEMPLATES[i].content
        ELSE f[p]]

CreateFromTemplates(f, frc, day) ==
    [p \in DOMAIN f |->
        IF \E i \in 1..Len(EMBEDDED_TEMPLATES) : TemplateTarget(EMBEDDED_TEMPLATES[i].name) = p
        THEN LET i == CHOOSE k \in 1..Len(EMBEDDED_TEMPLATES) :
                          TemplateTarget(EMBEDDED_TEMPLATES[k].name) = p
             IN  IF f[p] # NoFile /\ ~frc
                 THEN f[p]
                 ELSE Replace(EMBEDDED_TEMPLATES[i].content, DateToken, strftime(day))
        ELSE f[p]]

(* ------------------------------ _copy_files ---------------------------- *)
CopyFiles(f, tree, sp, frc, day) ==
    IF ~SourcePathExists(tree, sp)
    THEN CreateFromTemplates(f, frc, day)
    ELSE [p \in DOMAIN f |->
            IF \E n \in Range(files_to_copy) : p = claude_tasks_dir \o <<n>>
            THEN LET file_name == p[2]
                 IN  IF <<file_name>> \in SourceFiles(tree, sp)
                     THEN IF f[p] # NoFile /\ ~frc
                          THEN f[p]
                          ELSE SourceText(sp, <<file_name>>)
                     ELSE f[p]
            ELSE IF p = target_active
            THEN IF active_rel \in SourceFiles(tree, sp)
                 THEN IF f[p] = NoFile \/ frc
                      THEN SourceText(sp, active_rel)
                      ELSE f[p]
                 ELSE f[p]
            ELSE f[p]]

\* the target files in the order _copy_files goes through them
copy_order ==
    [i \in 1..Len(files_to_copy) |-> claude_tasks_dir \o <<files_to_copy[i]>>] \o <<target_active>>

\* _copy_files calls shutil.copy2 for the target file p
IsCopied(f, tree, sp, frc, p) ==
    Tail(p) \in SourceFiles(tree, sp) /\ (f[p] = NoFile \/ frc)

\* _copy_files left by an exception of the k-th file's copy: the files before it are done
CopyFilesUntil(f, tree, sp, frc, day, k) ==
    [p \in DOMAIN f |->
        IF \E i \in 1..(k-1) : copy_order[i] = p
        THEN CopyFiles(f, tree, sp, frc, day)[p]
        ELSE f[p]]

(* --------------------------- _copy_from_source ------------------------- *)
\* the source_path a local source resolves to (lines 218-224)
\* as LocalSourcePath, but the claude_tasks subdirectory is not looked for
LocalSourcePath_NoDescend(tree) == SrcRoot

LocalSourcePath(tree) == IF tree.hasSub THEN SrcSub ELSE SrcRoot

(* ------------------------------ CLAUDE.md ------------------------------ *)
\* as UpdateExistingClaudeMd, but the marker is not looked for
UpdateExistingClaudeMd_NoMarkerCheck(f, frc) ==
    LET existing_content == f[claude_md_path]
        stripped == IF StartsWith(existing_content, Header)
                    THEN SliceFrom(existing_content, Find(existing_content, NL) + 1)
                    ELSE existing_content
    IN  [f EXCEPT ![backup_path] = IF ~frc THEN f[claude_md_path] ELSE @,
                  ![claude_md_path] = reference_section \o stripped]

\* as UpdateExistingClaudeMd, but the backup is written whatever force is
UpdateExistingClaudeMd_AlwaysBackup(f, frc) ==
    LET existing_content == f[claude_md_path]
    IN  IF Contains(existing_content, Marker)
        THEN f
        ELSE LET stripped == IF StartsWith(existing_content, Header)
                             THEN SliceFrom(existing_content, Find(existing_content, NL) + 1)
                             ELSE existing_content
             IN  [f EXCEPT ![backup_path] = f[claude_md_path],
                           ![claude_md_path] = reference_section \o stripped]

UpdateExistingClaudeMd(f, frc) ==
    LET existing_content == f[claude_md_path]
    IN  IF Contains(existing_content, Marker)
        THEN f
        ELSE LET stripped == IF StartsWith(existing_content, Header)
                             THEN SliceFrom(existing_content, Find(existing_content, NL) + 1)
                             ELSE existing_content
                 new_content == reference_section \o stripped
             IN  [f EXCEPT ![backup_path] = IF ~frc THEN f[claude_md_path] ELSE @,
                           ![claude_md_path] = new_content]

CreateNewClaudeMd(f, src) ==
    IF src.kind = "local" /\ src.tree.exists /\ src.tree.claudeMd
    THEN [f EXCEPT ![claude_md_path] = SourceText(SrcRoot, claude_md_path)]
    ELSE [f EXCEPT ![claude_md_path] = claude_md_template]

HandleClaudeMd(d, f, src, frc) ==
    IF Exists(d, f, claude_md_path)
    THEN UpdateExistingClaudeMd(f, frc)
    ELSE CreateNewClaudeMd(f, src)

(* ------------------------------ dashboard ------------------------------ *)
node_modules == test_dashboard_dir \o <<"node_modules">>
package_lock == test_dashboard_dir \o <<"package-lock.json">>
package_json == test_dashboard_dir \o <<"package.json">>

\* shutil.rmtree(p) on the pair [d: directories, f: files]
RmTree(t, p) ==
    [d |-> {q \in t.d : ~IsPrefix(p, q)},
     f |-> [q \in DOMAIN t.f |-> IF IsPrefix(p, q) THEN NoFile ELSE t.f[q]]]

\* shutil.copytree(source / "test-dashboard-module", target_dir)
CopyTree(t, tree) ==
    [d |-> t.d \cup {test_dashboard_dir}
               \cup (IF tree.dashModules THEN {node_modules} ELSE {}),
     f |-> [q \in DOMAIN t.f |->
               IF IsPrefix(test_dashboard_dir, q) /\ Tail(q) \in tree.dashFiles
               THEN SourceText("<source>/test-dashboard-module", Tail(q))
               ELSE t.f[q]]]

CopyTestDashboard(t, tree) ==
    LET removed == IF test_dashboard_dir \in t.d THEN RmTree(t, test_dashboard_dir) ELSE t
        copied == CopyTree(removed, tree)
        no_modules == IF Exists(copied.d, copied.f, node_modules)
                      THEN RmTree(copied, node_modules) ELSE copied
    IN  IF Exists(no_modules.d, no_modules.f, package_lock)
        THEN [no_modules EXCEPT !.f[package_lock] = NoFile]
        ELSE no_modules

CreateEmbeddedDashboard(t) ==
    [d |-> t.d \cup {test_dashboard_dir, test_dashboard_dir \o <<"scripts">>},
     f |-> [t.f EXCEPT
              ![package_json] = <<"name: ", "<target.name>", "-test-dashboard", NL,
                                  "dependencies: express, cors", NL>>,
              ![test_dashboard_dir \o <<"server.js">>] = <<"#!/usr/bin/env node", NL, "server">>,
              ![test_dashboard_dir \o <<"scripts", "discover-tests.js">>] =
                  <<"#!/usr/bin/env node", NL, "discover">>]]

\* the part of _install_test_dashboard before the dependency install
InstallTestDashboard(t, src) ==
    IF src.kind = "local" /\ src.tree.exists /\ src.tree.hasDash
    THEN CopyTestDashboard(t, src.tree)
    ELSE CreateEmbeddedDashboard(t)

\* what a successful "npm install" leaves in the dashboard directory
NpmInstalled(t) ==
    [d |-> t.d \cup {node_modules},
     f |-> [t.f EXCEPT ![package_lock] = <<"lockfile written by npm">>]]

(* ------------------------------ .gitignore ----------------------------- *)
\* as UpdateGitignore, but the text is not ended with a newline before the entries
UpdateGitignore_NoNewline(d, f) ==
    IF Exists(d, f, gitignore_path)
    THEN LET content == f[gitignore_path]
         IN  IF Contains(content, Marker)
             THEN f
             ELSE [f EXCEPT ![gitignore_path] = content \o Join(NL, entries_to_add) \o <<NL>>]
    ELSE [f EXCEPT ![gitignore_path] = Join(NL, entries_to_add) \o <<NL>>]

UpdateGitignore(d, f) ==
    IF Exists(d, f, gitignore_path)
    THEN LET content == f[gitignore_path]
         IN  IF Contains(content, Marker)
             THEN f
             ELSE LET terminated == IF ~EndsWith(content, NL) THEN content \o <<NL>> ELSE content
                  IN  [f EXCEPT ![gitignore_path] = terminated \o Join(NL, entries_to_add) \o <<NL>>]
    ELSE [f EXCEPT ![gitignore_path] = Join(NL, entries_to_add) \o <<NL>>]

(* ------------------------------- state --------------------------------- *)
VARIABLES
    source,                 \* --source: [kind, tree]
    force,                  \* --force
    no_git,                 \* --no-git
    dirs,                   \* the directories of the target (Root included when it exists)
    fs,                     \* the text of every file path of the target, or NoFile
    today,                  \* the clock's day
    pc,                     \* the position of the process in run()
    claude_tasks_exists,    \* local of run(), line 129
    test_dashboard_exists,  \* local of run(), line 130
    claude_md_exists,       \* local of run(), line 131
    source_path,            \* local of _copy_from_source
    temp_dir,               \* the scratch clone directory exists
    raised,                 \* the exception in flight, "none" when there is none
    npm_result,             \* the outcome of the last npm install of this run
    exit_code,              \* the exit code of the process, -1 while it runs
    runs,                   \* the number of runs started
    hist                    \* history: the target before this run, after the first run, at the start

vars == << source, force, no_git, dirs, fs, today, pc, claude_tasks_exists,
           test_dashboard_exists, claude_md_exists, source_path, temp_dir, raised,
           npm_result, exit_code, runs, hist >>

args == << source, force, no_git >>
locals == << claude_tasks_exists, test_dashboard_exists, claude_md_exists >>

(* --------------------------- initial states ---------------------------- *)
NoTree ==
    [exists |-> FALSE, hasSub |-> FALSE, rootFiles |-> {}, subFiles |-> {},
     claudeMd |-> FALSE, hasDash |-> FALSE, dashFiles |-> {}, dashModules |-> FALSE]

\* a source that holds the first and the last name of the list, one in between and the active tasks
SeveralSourceFiles ==
    { <<files_to_copy[1]>>, <<files_to_copy[3]>>, <<files_to_copy[Len(files_to_copy)]>>, active_rel }

LocalTrees ==
    { NoTree,
      [NoTree EXCEPT !.exists = TRUE, !.hasSub = TRUE,
                     !.rootFiles = {<<"PRINCIPLES_QUICK_CARD.md">>},
                     !.subFiles = {<<"QUICK_REFERENCE.md">>}],
      [NoTree EXCEPT !.exists = TRUE, !.hasSub = TRUE, !.subFiles = SeveralSourceFiles,
                     !.claudeMd = TRUE, !.hasDash = TRUE,
                     !.dashFiles = {<<"package.json">>, <<"server.js">>, <<"package-lock.json">>},
                     !.dashModules = TRUE],
      [NoTree EXCEPT !.exists = TRUE,
                     !.rootFiles = {<<"QUICK_REFERENCE.md">>, active_rel},
                     !.subFiles = {<<"TASK_TEMPLATE.md">>},
                     !.hasDash = TRUE, !.dashFiles = {<<"server.js">>}],
      [NoTree EXCEPT !.exists = TRUE, !.claudeMd = TRUE],
      [NoTree EXCEPT !.exists = TRUE, !.hasSub = TRUE] }

RemoteTrees ==
    { [NoTree EXCEPT !.exists = TRUE],
      [NoTree EXCEPT !.exists = TRUE, !.hasSub = TRUE,
                     !.subFiles = {<<"QUICK_REFERENCE.md">>, <<"DEVELOPMENT_PROCESS.md">>, active_rel}] }

Sources ==
    {[kind |-> "none", tree |-> NoTree]}
    \cup {[kind |-> "local", tree |-> t] : t \in LocalTrees}
    \cup {[kind |-> "remote", tree |-> t] : t \in RemoteTrees}

NoFiles == [p \in FilePaths |-> NoFile]

\* task directories a target can hold before a run
TaskLayouts ==
    { [d |-> {}, f |-> NoFiles],
      [d |-> Range(directories), f |-> NoFiles],
      [d |-> Range(directories),
       f |-> [NoFiles EXCEPT ![claude_tasks_dir \o <<"QUICK_REFERENCE.md">>] = <<"my quick reference", NL>>,
                             ![target_active] = <<"my tasks of ", "2026-10-01", NL>>]] }

\* CLAUDE.md and CLAUDE.md.backup a target can hold before a run
GuidanceLayouts ==
    { [md |-> NoFile, backup |-> NoFile],
      [md |-> <<"notes">>, backup |-> NoFile],
      [md |-> <<Header, NL, "notes", NL>>, backup |-> NoFile],
      [md |-> <<Header, " of my project">>, backup |-> <<"an older backup", NL>>],
      [md |-> <<"notes", NL, Header, NL>>, backup |-> NoFile],
      [md |-> <<Header, NL, "see ", Marker, "/", NL>>, backup |-> NoFile],
      [md |-> <<"see ", Marker>>, backup |-> <<"an older backup", NL>>] }

\* .gitignore a target can hold before a run
IgnoreLayouts ==
    { NoFile,
      <<>>,
      <<"node_modules/">>,
      <<"node_modules/", NL, "dist/", NL>>,
      <<"# ", Marker, NL, "*.backup", NL>> }

\* test-dashboard-module a target can hold before a run
DashboardLayouts ==
    { [d |-> {}, f |-> NoFiles],
      [d |-> {test_dashboard_dir, node_modules},
       f |-> [NoFiles EXCEPT ![package_json] = <<"my package.json">>,
                             ![package_lock] = <<"my lockfile">>]] }

Overlay(f, g) == [p \in FilePaths |-> IF g[p] # NoFile THEN g[p] ELSE f[p]]

Targets ==
    { [d |-> {}, f |-> NoFiles] }
    \cup { [d |-> {Root} \cup t.d \cup b.d,
            f |-> [Overlay(t.f, b.f) EXCEPT ![claude_md_path] = g.md,
                                            ![backup_path] = g.backup,
                                            ![gitignore_path] = i]] :
           t \in TaskLayouts, g \in GuidanceLayouts, i \in IgnoreLayouts, b \in DashboardLayouts }

Snapshot == [d |-> dirs, f |-> fs]

IsEmptyTarget(t) == t.d = {Root} /\ t.f = NoFiles

Init ==
    /\ source \in Sources
    /\ force \in BOOLEAN
    /\ no_git \in BOOLEAN
    /\ \E t \in Targets :
          /\ dirs = t.d
          /\ fs = t.f
          /\ hist = [pre |-> t, first |-> t, first_exit |-> -1, start |-> t]
    /\ today = 1
    /\ pc = "ready"
    /\ claude_tasks_exists = FALSE
    /\ test_dashboard_exists = FALSE
    /\ claude_md_exists = FALSE
    /\ source_path = "unset"
    /\ temp_dir = FALSE
    /\ raised = "none"
    /\ npm_result = "none"
    /\ exit_code = -1
    /\ runs = 0

(* ------------------------------- actions ------------------------------- *)
\* a process is started with the arguments; run() lines 123-136
StartRun ==
    /\ pc \in {"ready", "exit"}
    /\ runs < MaxRuns
    /\ runs' = runs + 1
    /\ \E d \in {today, today + 1} : d <= MaxDay /\ today' = d
    /\ claude_tasks_exists' = Exists(dirs, fs, claude_tasks_dir)
    /\ test_dashboard_exists' = Exists(dirs, fs, test_dashboard_dir)
    /\ claude_md_exists' = Exists(dirs, fs, claude_md_path)
    /\ hist' = [hist EXCEPT !.pre = Snapshot,
                            !.first = IF runs = 1 THEN Snapshot ELSE @,
                            !.first_exit = IF runs = 1 THEN exit_code ELSE @]
    /\ source_path' = "unset"
    /\ temp_dir' = FALSE
    /\ raised' = "none"
    /\ npm_result' = "none"
    /\ exit_code' = -1
    /\ pc' = "claude_tasks"
    /\ UNCHANGED << args, dirs, fs >>

\* run() lines 138-154, without the body of _copy_from_source
InstallClaudeTasks ==
    /\ pc = "claude_tasks"
    /\ IF ~claude_tasks_exists \/ force
       THEN /\ dirs' = CreateDirectoryStructure(dirs)
            /\ IF source.kind # "none"
               THEN pc' = "copy_from_source" /\ fs' = fs
               ELSE pc' = "claude_md" /\ fs' = CreateFromTemplates(fs, force, today)
       ELSE pc' = "claude_md" /\ UNCHANGED << dirs, fs >>
    /\ UNCHANGED << args, today, locals, source_path, temp_dir, raised, npm_result,
                    exit_code, runs, hist >>

\* _copy_from_source lines 200-224: the try block up to the resolved source_path
CopyFromSource ==
    /\ pc = "copy_from_source"
    /\ IF IsRemote(source)
       THEN /\ temp_dir' = TRUE
            /\ \E returncode \in {0, 128} :
                  IF returncode = 0
                  THEN source_path' = SrcTemp /\ raised' = raised /\ pc' = "copy_files"
                  ELSE source_path' = source_path /\ raised' = "CalledProcessError"
                       /\ pc' = "finally"
       ELSE /\ temp_dir' = temp_dir
            /\ IF ~source.tree.exists
               THEN source_path' = source_path /\ raised' = "FileNotFoundError"
                    /\ pc' = "finally"
               ELSE source_path' = LocalSourcePath(source.tree) /\ raised' = raised
                    /\ pc' = "copy_files"
    /\ UNCHANGED << args, dirs, fs, today, locals, npm_result, exit_code, runs, hist >>

\* _copy_from_source line 227: _copy_files(source_path).  Either every copy
\* succeeds, or one shutil.copy2 call (lines 260, 268) raises an OSError: the
\* files copied before it stay and the exception leaves _copy_files.
CopyFilesStep ==
    /\ pc = "copy_files"
    /\ \/ /\ fs' = CopyFiles(fs, source.tree, source_path, force, today)
          /\ raised' = raised
       \/ /\ SourcePathExists(source.tree, source_path)
          /\ \E k \in 1..Len(copy_order) :
                /\ IsCopied(fs, source.tree, source_path, force, copy_order[k])
                /\ fs' = CopyFilesUntil(fs, source.tree, source_path, force, today, k)
          /\ raised' = "OSError"
    /\ pc' = "finally"
    /\ UNCHANGED << args, dirs, today, locals, source_path, temp_dir, npm_result,
                    exit_code, runs, hist >>

\* as Finally, but the scratch directory is removed only when no exception is in flight
Finally_CleanupOnSuccessOnly ==
    /\ pc = "finally"
    /\ temp_dir' = IF raised = "none" THEN FALSE ELSE temp_dir
    /\ IF raised # "none"
       THEN pc' = "exit" /\ exit_code' = 1
       ELSE pc' = "claude_md" /\ exit_code' = exit_code
    /\ UNCHANGED << args, dirs, fs, today, locals, source_path, raised, npm_result,
                    runs, hist >>

\* as Finally, but the exception in flight is dropped and run() goes on
Finally_Swallow ==
    /\ pc = "finally"
    /\ temp_dir' = FALSE
    /\ pc' = "claude_md"
    /\ UNCHANGED << args, dirs, fs, today, locals, source_path, raised, npm_result,
                    exit_code, runs, hist >>

\* _copy_from_source lines 229-232; an exception in flight reaches main, lines 691-693
Finally ==
    /\ pc = "finally"
    /\ temp_dir' = FALSE
    /\ IF raised # "none"
       THEN pc' = "exit" /\ exit_code' = 1
       ELSE pc' = "claude_md" /\ exit_code' = exit_code
    /\ UNCHANGED << args, dirs, fs, today, locals, source_path, raised, npm_result,
                    runs, hist >>

\* as ClaudeMd, but the guidance file is handled whether or not it was there
ClaudeMd_NoGate ==
    /\ pc = "claude_md"
    /\ fs' = HandleClaudeMd(dirs, fs, source, force)
    /\ pc' = "test_dashboard"
    /\ UNCHANGED << args, dirs, today, locals, source_path, temp_dir, raised, npm_result,
                    exit_code, runs, hist >>

\* run() lines 156-164
ClaudeMd ==
    /\ pc = "claude_md"
    /\ IF ~claude_md_exists \/ force
       THEN fs' = HandleClaudeMd(dirs, fs, source, force)
       ELSE fs' = fs
    /\ pc' = "test_dashboard"
    /\ UNCHANGED << args, dirs, today, locals, source_path, temp_dir, raised, npm_result,
                    exit_code, runs, hist >>

\* run() lines 166-174 and _install_test_dashboard lines 407-428
TestDashboard ==
    /\ pc = "test_dashboard"
    /\ IF ~test_dashboard_exists \/ force
       THEN LET t == InstallTestDashboard(Snapshot, source)
            IN  dirs' = t.d /\ fs' = t.f /\ pc' = "npm"
       ELSE UNCHANGED << dirs, fs >> /\ pc' = "gitignore"
    /\ UNCHANGED << args, today, locals, source_path, temp_dir, raised, npm_result,
                    exit_code, runs, hist >>

NpmOutcomes == {"ok", "nonzero", "timeout", "notfound"}

\* as InstallNodeDependencies, but a timeout or a missing npm is not caught
InstallNodeDependencies_Uncaught ==
    /\ pc = "npm"
    /\ IF ~Exists(dirs, fs, package_json)
       THEN /\ npm_result' = "skipped" /\ pc' = "gitignore"
            /\ UNCHANGED << dirs, fs, raised, exit_code >>
       ELSE \E r \in NpmOutcomes :
               /\ npm_result' = r
               /\ IF r = "ok"
                  THEN LET t == NpmInstalled(Snapshot) IN dirs' = t.d /\ fs' = t.f
                  ELSE UNCHANGED << dirs, fs >>
               /\ IF r \in {"timeout", "notfound"}
                  THEN raised' = "Exception" /\ pc' = "exit" /\ exit_code' = 1
                  ELSE raised' = raised /\ pc' = "gitignore" /\ exit_code' = exit_code
    /\ UNCHANGED << args, today, locals, source_path, temp_dir, runs, hist >>

\* _install_node_dependencies lines 525-555
InstallNodeDependencies ==
    /\ pc = "npm"
    /\ IF ~Exists(dirs, fs, package_json)
       THEN npm_result' = "skipped" /\ UNCHANGED << dirs, fs >>
       ELSE \E r \in NpmOutcomes :
               /\ npm_result' = r
               /\ IF r = "ok"
                  THEN LET t == NpmInstalled(Snapshot) IN dirs' = t.d /\ fs' = t.f
                  ELSE UNCHANGED << dirs, fs >>
    /\ pc' = "gitignore"
    /\ UNCHANGED << args, today, locals, source_path, temp_dir, raised, exit_code, runs, hist >>

\* run() lines 176-178
Gitignore ==
    /\ pc = "gitignore"
    /\ IF ~no_git
       THEN fs' = UpdateGitignore(dirs, fs)
       ELSE fs' = fs
    /\ pc' = "summary"
    /\ UNCHANGED << args, dirs, today, locals, source_path, temp_dir, raised, npm_result,
                    exit_code, runs, hist >>

\* run() lines 180-181 and the normal return of main
Summary ==
    /\ pc = "summary"
    /\ pc' = "exit"
    /\ exit_code' = 0
    /\ UNCHANGED << args, dirs, fs, today, locals, source_path, temp_dir, raised, npm_result,
                    runs, hist >>

Next ==
    \/ StartRun
    \/ InstallClaudeTasks
    \/ CopyFromSource
    \/ CopyFilesStep
    \/ Finally
    \/ ClaudeMd
    \/ TestDashboard
    \/ InstallNodeDependencies
    \/ Gitignore
    \/ Summary

Spec == Init /\ [][Next]_vars

(* ------------------------ vocabulary of the claims --------------------- *)
pre == hist.pre

\* the run has ended
Ended == pc = "exit"

\* the fixed block of ignore entries, written out
IgnoreBlock ==
    << NL, "# Claude task management", NL, "*.backup", NL, "CLAUDE.md.backup", NL,
       NL, "# Test Dashboard Module", NL, "test-dashboard-module/node_modules/", NL,
       "test-dashboard-module/package-lock.json", NL,
       "test-dashboard-module/test-registry.json", NL >>

\* the fixed reference block, written out
ReferenceBlock ==
    << "# CLAUDE.md", NL, NL, "## Claude Development Process", NL,
       "- ", "claude_tasks", "/QUICK_REFERENCE.md - Quick commands and workflow", NL,
       "---", NL, NL >>

\* text is the reference block followed by orig, with at most one leading header line removed
IsPrepended(text, orig) ==
    \/ text = ReferenceBlock \o orig
    \/ /\ Len(orig) > 0 /\ orig[1] = "# CLAUDE.md"
       /\ \E k \in 1..Len(orig) :
             /\ orig[k] = NL
             /\ \A j \in 1..(k-1) : orig[j] # NL
             /\ text = ReferenceBlock \o SubSeq(orig, k + 1, Len(orig))

\* CLAUDE.md was there before the run and did not hold the marker
UnmarkedGuidance ==
    /\ pre.f[claude_md_path] # NoFile
    /\ ~Contains(pre.f[claude_md_path], "claude_tasks")

EmbeddedTargets ==
    { claude_tasks_dir \o <<"QUICK_REFERENCE.md">>,
      claude_tasks_dir \o <<"PRINCIPLES_QUICK_CARD.md">>,
      claude_tasks_dir \o <<"active", "ACTIVE_TASKS.md">> }

(* -------------------------------- C1 ----------------------------------- *)
\* C1: starting from an empty target, after a second run with the same
\* arguments the target holds the same directories and files, with the same
\* contents, as after the first run.  Stated for two runs that both end
\* without a fatal error.
C1_SecondRunIsNoOp ==
    (Ended /\ runs = 2 /\ IsEmptyTarget(hist.start) /\ hist.first_exit = 0 /\ exit_code = 0)
        => Snapshot = hist.first

(* -------------------------------- C2 ----------------------------------- *)
\* C2: CLAUDE.md exists before the run without the marker and force is
\* false: after a run that ends without a fatal error CLAUDE.md.backup holds the original text and
\* CLAUDE.md is the reference block followed by the original text with at
\* most one leading header line removed.
C2_BackupAndPrepend ==
    (Ended /\ exit_code = 0 /\ UnmarkedGuidance /\ ~force)
        => /\ fs[backup_path] = pre.f[claude_md_path]
           /\ IsPrepended(fs[claude_md_path], pre.f[claude_md_path])

(* -------------------------------- C3 ----------------------------------- *)
\* C3: when CLAUDE.md holds the marker before a run, then at every point of
\* the run, whatever source, force and no-git are, CLAUDE.md has its
\* original text and CLAUDE.md.backup is as it was (none is written).
C3_MarkedGuidanceUnchanged ==
    Contains(pre.f[claude_md_path], "claude_tasks")
        => /\ fs[claude_md_path] = pre.f[claude_md_path]
           /\ fs[backup_path] = pre.f[backup_path]

\* a forced run over a marked CLAUDE.md has passed the guidance-file step and ended
C3_Witness ==
    /\ Ended /\ exit_code = 0 /\ force
    /\ Contains(pre.f[claude_md_path], "claude_tasks")
    /\ pre.f[backup_path] = NoFile

C5_IgnoreFilePatch ==
    [][ IF pc = "gitignore" /\ ~no_git
        THEN LET old == fs[gitignore_path]
                 new == fs'[gitignore_path]
             IN  IF old = NoFile THEN new = IgnoreBlock
                 ELSE IF Contains(old, "claude_tasks") THEN new = old
                 ELSE IF Len(old) > 0 /\ old[Len(old)] = NL THEN new = old \o IgnoreBlock
                 ELSE new = old \o <<NL>> \o IgnoreBlock
        ELSE fs'[gitignore_path] = fs[gitignore_path] ]_vars

\* the patch has appended the block to a text that did not end with a newline
C5_Witness ==
    /\ pc = "summary" /\ ~no_git
    /\ pre.f[gitignore_path] = <<"node_modules/">>
    /\ fs[gitignore_path] = <<"node_modules/", NL>> \o IgnoreBlock

(* -------------------------------- C6 ----------------------------------- *)
\* C6: in a run with a local source that holds a claude_tasks subdirectory,
\* a name that is absent there raises no error (the only exception there can
\* be is the I/O error of copying a file that exists there), and a name that
\* is absent there is never created in the target.  After a copy that ended
\* without an I/O error the subdirectory is the place copied from and every
\* name of the fixed list (and active/ACTIVE_TASKS.md) that exists there is
\* in the target with the text of the subdirectory's file; the run then ends
\* with exit code 0.
C6_CopiesWhatTheSubdirectoryHolds ==
    (source.kind = "local" /\ source.tree.exists /\ source.tree.hasSub)
        => /\ raised \in {"none", "OSError"}
           /\ raised = "OSError" => source.tree.subFiles # {}
           /\ (Ended /\ raised = "none") => exit_code = 0
           /\ pc = "finally" =>
                /\ source_path = "<source>/claude_tasks"
                /\ \A p \in TaskFilePaths :
                      IF Tail(p) \in source.tree.subFiles
                      THEN raised = "none" => fs[p] = <<"<source>/claude_tasks">> \o Tail(p)
                      ELSE fs[p] = pre.f[p]

\* only QUICK_REFERENCE.md was in the subdirectory, and only it was copied
C6_Witness ==
    /\ pc = "finally" /\ source.kind = "local"
    /\ source.tree.hasSub /\ source.tree.subFiles = {<<"QUICK_REFERENCE.md">>}
    /\ source.tree.rootFiles # {}
    /\ {p \in TaskFilePaths : fs[p] # NoFile} = {claude_tasks_dir \o <<"QUICK_REFERENCE.md">>}
    /\ fs[claude_tasks_dir \o <<"QUICK_REFERENCE.md">>]
          = <<"<source>/claude_tasks", "QUICK_REFERENCE.md">>

(* -------------------------------- C7 ----------------------------------- *)
\* C7: with no source and a target without a task directory, once the task
\* directory step is over the files of the task directory are exactly the
\* three embedded documents, and the active-tasks file holds the current date
\* where the template holds [DATE], with no [DATE] left.
C7_EmbeddedFallback ==
    (source.kind = "none" /\ ~claude_tasks_exists /\ pc \notin {"ready", "claude_tasks"})
        => /\ {p \in TaskFilePaths : fs[p] # NoFile} = EmbeddedTargets
           /\ ~Contains(fs[target_active], "[DATE]")
           /\ fs[target_active] =
                 <<"# Active Tasks", NL, "*Last Updated: ", strftime(today), "*", NL,
                   "## Task Queue", NL>>

\* a run without a source has ended on a target that had no task directory
C7_Witness ==
    /\ Ended /\ source.kind = "none" /\ ~claude_tasks_exists
    /\ today = 2
    /\ Contains(fs[target_active], "2026-11-02")

(* -------------------------------- C8 ----------------------------------- *)
\* the steps of run() after the task directory
LaterSteps == {"claude_md", "test_dashboard", "npm", "gitignore", "summary"}

\* source acquisition is attempted in this run and fails for the local source
AcquisitionAttempted == ~claude_tasks_exists \/ force

\* C8: a missing local source or a failed clone ends the run there: no
\* later step is taken while the exception is in flight, the process exits
\* with a non-zero code, no file of the target has changed, and the task
\* directories made before the failure are still there.  Whatever exception
\* ends a run, nothing outside the task directory has changed.  A run
\* without a fatal error exits with code 0.
C8_FatalAcquisition ==
    /\ pc \in LaterSteps => raised = "none"
    /\ Ended =>
         /\ exit_code \in {0, 1}
         /\ exit_code = 0 <=> raised = "none"
         /\ (source.kind = "local" /\ ~source.tree.exists /\ AcquisitionAttempted)
               => raised = "FileNotFoundError"
         /\ raised \in {"FileNotFoundError", "CalledProcessError"} => fs = pre.f
         /\ raised # "none" =>
               /\ \A p \in FilePaths \ TaskFilePaths : fs[p] = pre.f[p]
               /\ Range(directories) \subseteq dirs
               /\ pre.d \subseteq dirs
               /\ npm_result = "none"

\* a clone has failed: the process has exited with 1, the new directories are left
C8_Witness ==
    /\ Ended /\ exit_code = 1 /\ raised = "CalledProcessError"
    /\ claude_tasks_dir \notin pre.d
    /\ claude_tasks_dir \in dirs
    /\ fs[claude_md_path] = NoFile

(* -------------------------------- C9 ----------------------------------- *)
\* the files of the task directory the run has a template for
TemplatesAvailable ==
    CASE source.kind = "none" -> EmbeddedTargets
      [] source.kind = "local" ->
            {p \in TaskFilePaths : Tail(p) \in SourceFiles(source.tree, LocalSourcePath(source.tree))}
      [] OTHER -> {}

\* C9: the task directory exists before the run and force is false: after
\* a run that ends without a fatal error every file that was there is unchanged and every file the run has
\* a template for is there.
C9_AddsMissingFiles ==
    (Ended /\ exit_code = 0 /\ claude_tasks_exists /\ ~force)
        => \A p \in TaskFilePaths :
              /\ pre.f[p] # NoFile => fs[p] = pre.f[p]
              /\ p \in TemplatesAvailable => fs[p] # NoFile

(* -------------------------------- C10 ---------------------------------- *)
\* C10: a target root that does not exist before a run does not exist at any
\* point of the run.
C10_RootNeverCreated ==
    Root \notin pre.d => Root \notin dirs

(* -------------------------------- C11 ---------------------------------- *)
\* the positions of the process inside _copy_from_source, after the clone
InCopyFromSource == {"copy_files", "finally"}

\* C11: the scratch clone directory exists only inside _copy_from_source:
\* at every position outside it (before it is entered, and after it is left
\* by a return or by an exception) the directory does not exist.
C11_ScratchRemoved ==
    pc \notin InCopyFromSource => ~temp_dir

\* a clone succeeded, a copy raised, and the process has ended without the scratch directory
C11_Witness ==
    /\ Ended /\ IsRemote(source) /\ raised = "OSError"
    /\ exit_code = 1
    /\ ~temp_dir
    /\ fs[claude_tasks_dir \o <<"QUICK_REFERENCE.md">>] = <<"<tmp>/claude_tasks", "QUICK_REFERENCE.md">>
    /\ fs[target_active] = NoFile

(* -------------------------------- C12 ---------------------------------- *)
\* the outcomes of the dependency install that are failures
NpmFailures == {"nonzero", "timeout", "notfound"}

\* the text s ends with the text t
EndsWithText(s, t) ==
    Len(s) >= Len(t) /\ SubSeq(s, Len(s) - Len(t) + 1, Len(s)) = t

\* C12: the dependency install is entered only from the dashboard step (it
\* is not tried again).  When it fails, the step changes no file and no
\* directory, raises nothing and hands over to the ignore-file step; after
\* the failure the ignore-file step does its patch (unless --no-git) and
\* leaves the dashboard files alone, and the summary step ends the process
\* with exit code 0.
C12_InstallFailureIsNotFatal ==
    [][ /\ pc' = "npm" => pc = "test_dashboard"
        /\ (pc = "npm" /\ npm_result' \in NpmFailures)
              => /\ fs' = fs /\ dirs' = dirs
                 /\ fs[package_json] # NoFile
                 /\ raised' = "none" /\ exit_code' = -1
                 /\ pc' = "gitignore"
        /\ (pc = "gitignore" /\ npm_result \in NpmFailures)
              => /\ pc' = "summary"
                 /\ dirs' = dirs
                 /\ \A p \in FilePaths \ {gitignore_path} : fs'[p] = fs[p]
                 /\ IF no_git
                    THEN fs'[gitignore_path] = fs[gitignore_path]
                    ELSE \/ EndsWithText(fs'[gitignore_path], IgnoreBlock)
                         \/ /\ Contains(fs[gitignore_path], "claude_tasks")
                            /\ fs'[gitignore_path] = fs[gitignore_path]
        /\ (pc = "summary" /\ npm_result \in NpmFailures)
              => /\ pc' = "exit" /\ exit_code' = 0
                 /\ fs' = fs /\ dirs' = dirs ]_vars

\* the install timed out on a newly written dashboard; the patch was done and the exit code is 0
C12_Witness ==
    /\ Ended /\ exit_code = 0 /\ npm_result = "timeout" /\ ~no_git
    /\ pre.f[package_json] = NoFile
    /\ fs[package_json] # NoFile
    /\ pre.f[gitignore_path] = NoFile
    /\ fs[gitignore_path] = IgnoreBlock

(* -------------------------------- C13 ---------------------------------- *)
\* C13: at every point of a run with force false, every file that was in
\* the target before the run, other than .gitignore, has the text it had,
\* every directory that was there is there, and a .gitignore that was there
\* begins with the text it had.
C13_NonForceRunKeepsFiles ==
    ~force
        => /\ \A p \in FilePaths \ {gitignore_path} :
                 pre.f[p] # NoFile => fs[p] = pre.f[p]
           /\ pre.d \subseteq dirs
           /\ pre.f[gitignore_path] # NoFile
                 => /\ fs[gitignore_path] # NoFile
                    /\ Len(fs[gitignore_path]) >= Len(pre.f[gitignore_path])
                    /\ SubSeq(fs[gitignore_path], 1, Len(pre.f[gitignore_path]))
                          = pre.f[gitignore_path]

\* a run without force has ended over an unmarked CLAUDE.md, task files and a
\* .gitignore of the user: it has added a dashboard and extended .gitignore
C13_Witness ==
    /\ Ended /\ exit_code = 0 /\ ~force
    /\ pre.f[claude_md_path] = <<"notes">>
    /\ pre.f[claude_tasks_dir \o <<"QUICK_REFERENCE.md">>] # NoFile
    /\ pre.f[gitignore_path] = <<"node_modules/">>
    /\ pre.f[package_json] = NoFile
    /\ fs[package_json] # NoFile
    /\ fs[gitignore_path] # pre.f[gitignore_path]

====
